---- MODULE Spec2Model ----
(***************************************************************************)
(* MindOS: the completion / session / XP reconciliation engine.            *)
(*                                                                         *)
(* The four stores (event_completions, task_sessions, user_xp +            *)
(* xp_transactions, daily_xp_deduction) are tables, modelled as sequences  *)
(* of rows in insertion order (the position is the autoincrement id).      *)
(* Every public operation of TaskStatusCore / TaskSessionCore /            *)
(* XPRepository is one action; the multi-day catch-up pass is one action   *)
(* that folds over the missed days exactly as the loop in                  *)
(* deduct_xp_for_pending_tasks_from_yesterday does.                        *)
(*                                                                         *)
(* Time is a tick counter: datetime.now() is now, date.today() is          *)
(* now \div TicksPerDay.  Python's None is the value None below.           *)
(***************************************************************************)
EXTENDS Integers, Sequences, FiniteSets, TLC

(* ---------------- program constants ---------------- *)
XP_PER_TASK == 5
XP_PER_LEVEL == 100

(* ---------------- bounds of the model ---------------- *)
TicksPerDay == 2
MaxDay == 2
MaxOps == 3
MaxFaultOps == 2
MaxXpOps == 4
MaxIdLen == 7
MaxMarkOps == 4
MaxRaceOps == 3

(* None for nullable integer columns (times, durations, dates).  All real  *)
(* instants of the model are >= -TicksPerDay, durations are >= 0.          *)
None == -1000

(* event ids are strings, modelled as sequences of characters *)
NoEvent == << >>
IdA == <<"a">>
IdB == <<"b">>
IdA1 == <<"a", "_", "T", "1", "Z">>
IdA2 == <<"a", "_", "T", "2", "Z">>
BaseIds == {IdA, IdB}

SYSTEM_DESCRIPTION == "Stopped by system (forgot to stop timer)"
Descriptions == {"", " ", "note"}

(* a strip that keeps white space *)
Strip_keeps_blanks(s) == s

(* str.strip() on the descriptions of the model *)
Strip(s) == IF s = " " THEN "" ELSE s

(* datetime.date() of an instant; datetime.combine(d, time.min) *)
DateOf(t) == t \div TicksPerDay
Midnight(d) == d * TicksPerDay
(* datetime.combine(d, time.max).replace(microsecond=0) - 1s : 23:59:58 of d *)
EndOfDay(d) == d * TicksPerDay + (TicksPerDay - 1)

Truthy(x) == x # None /\ x # 0

(* the largest element of a set of numbers *)
MaxOf(S) == CHOOSE x \in S : \A y \in S : y <= x

(* now: the clock; completions, sessions, transactions, markers: the rows  *)
(* of event_completions, task_sessions, xp_transactions and                *)
(* daily_xp_deduction; total_xp: user_xp.total_xp; last: the last call,    *)
(* its arguments and what it returned; ops: the calls made so far, of the  *)
(* budget calls a behaviour is followed for; walked: the history of the    *)
(* days the completed passes walked, [date, run] with run the day of the   *)
(* pass; inflight: for each caller, where it is inside an operation whose  *)
(* steps are followed one at a time, and what it has read so far           *)
VARIABLES now, completions, sessions, total_xp, transactions, markers, last, ops,
          budget, walked, inflight

vars == <<now, completions, sessions, total_xp, transactions, markers, last, ops,
          budget, walked, inflight>>

(* the callers that can be inside an operation at the same time, and a     *)
(* caller that is inside none                                              *)
Callers == {1, 2}
Idle == [pc |-> "idle"]

Today == DateOf(now)

(* ---------------- str helpers: extract_base_event_id ---------------- *)
LastIndexOf(s, c) ==
    LET S == {i \in DOMAIN s : s[i] = c}
    IN IF S = {} THEN 0 ELSE CHOOSE i \in S : \A j \in S : j <= i

extract_base_event_id(event_id) ==
    LET k == LastIndexOf(event_id, "_")
    IN IF k = 0 THEN event_id
       ELSE LET head == SubSeq(event_id, 1, k - 1)
                tail == SubSeq(event_id, k + 1, Len(event_id))
            IN IF (\E i \in DOMAIN tail : tail[i] = "T")
                  /\ Len(tail) > 0 /\ tail[Len(tail)] = "Z"
               THEN head
               ELSE event_id

(* ---------------- event_completions ---------------- *)
(* rows: [event_id, is_done, completed_at, completion_description] *)

(* a lookup that finds the event's done row of any day *)
get_by_event_id_any_day(comps, event_id, completion_date) ==
    LET S == {i \in DOMAIN comps :
                /\ comps[i].event_id = event_id
                /\ comps[i].completed_at # None
                /\ comps[i].is_done}
    IN IF S = {} THEN 0 ELSE CHOOSE i \in S : \A j \in S : i <= j

(* EventCompletionRepository.get_by_event_id: index of the first row of    *)
(* the event that is done and whose DATE(completed_at) is the day, 0 if    *)
(* there is none                                                           *)
get_by_event_id(comps, event_id, completion_date) ==
    LET S == {i \in DOMAIN comps :
                /\ comps[i].event_id = event_id
                /\ comps[i].completed_at # None
                /\ DateOf(comps[i].completed_at) = completion_date
                /\ comps[i].is_done}
    IN IF S = {} THEN 0 ELSE CHOOSE i \in S : \A j \in S : i <= j

is_done(comps, event_id, completion_date) ==
    LET i == get_by_event_id(comps, event_id, completion_date)
    IN IF i = 0 THEN FALSE ELSE comps[i].is_done

(* mark_done that inserts a row without looking for the day's row *)
repo_mark_done_insert(comps, event_id, description, completion_date, completed_at_datetime, ok) ==
    IF ~ok THEN [comps |-> comps, ret |-> FALSE]
    ELSE [comps |-> Append(comps,
                      [event_id |-> event_id, is_done |-> TRUE,
                       completed_at |-> IF completed_at_datetime # None
                                        THEN completed_at_datetime
                                        ELSE Midnight(completion_date),
                       completion_description |-> description]),
          ret |-> TRUE]

(* EventCompletionRepository.mark_done; ok is the outcome of the commit.   *)
(* Result: the table and whether a completion (not None) is returned.      *)
repo_mark_done(comps, event_id, description, completion_date, completed_at_datetime, ok) ==
    LET completed_at == IF completed_at_datetime # None
                        THEN completed_at_datetime
                        ELSE Midnight(completion_date)
        i == get_by_event_id(comps, event_id, completion_date)
    IN IF ~ok THEN [comps |-> comps, ret |-> FALSE]
       ELSE IF i # 0
       THEN [comps |-> [comps EXCEPT ![i] =
                          [@ EXCEPT !.is_done = TRUE,
                                    !.completed_at = completed_at,
                                    !.completion_description = description]],
             ret |-> TRUE]
       ELSE [comps |-> Append(comps,
                          [event_id |-> event_id, is_done |-> TRUE,
                           completed_at |-> completed_at,
                           completion_description |-> description]),
             ret |-> TRUE]

(* mark_undone that reports success and leaves the row as it was *)
repo_mark_undone_unsaved(comps, event_id, completion_date, ok) ==
    [comps |-> comps,
     ret |-> get_by_event_id(comps, event_id, completion_date) # 0 /\ ok]

(* EventCompletionRepository.mark_undone.  With no done row for the day    *)
(* the code calls create(completion_date=...), a keyword EventCompletion   *)
(* does not have: the constructor raises, create() catches it and returns  *)
(* None, and no row is written.                                            *)
repo_mark_undone(comps, event_id, completion_date, ok) ==
    LET i == get_by_event_id(comps, event_id, completion_date)
    IN IF i # 0 /\ ok
       THEN [comps |-> [comps EXCEPT ![i] =
                          [@ EXCEPT !.is_done = FALSE, !.completed_at = None]],
             ret |-> TRUE]
       ELSE [comps |-> comps, ret |-> FALSE]

(* a status that reports the done row of the event of any day *)
completion_status_any_day(comps, event_id, completion_date) ==
    LET S == {i \in DOMAIN comps :
                /\ comps[i].event_id = event_id
                /\ comps[i].is_done}
    IN IF S = {} THEN <<FALSE, None, None>>
       ELSE <<TRUE, comps[MaxOf(S)].completed_at,
              comps[MaxOf(S)].completion_description>>

(* EventCompletionRepository.get_completion_status_batch, the entry of one *)
(* id of the request: (is_done, completed_at, description).  The query     *)
(* selects the done rows whose DATE(completed_at) is the day; the dict is  *)
(* filled row by row, so the last selected row of the id stays; an id      *)
(* without a selected row gets (False, None, None).                        *)
completion_status(comps, event_id, completion_date) ==
    LET S == {i \in DOMAIN comps :
                /\ comps[i].event_id = event_id
                /\ comps[i].completed_at # None
                /\ DateOf(comps[i].completed_at) = completion_date
                /\ comps[i].is_done}
    IN IF S = {} THEN <<FALSE, None, None>>
       ELSE <<comps[MaxOf(S)].is_done, comps[MaxOf(S)].completed_at,
              comps[MaxOf(S)].completion_description>>

(* EventCompletionRepository.get_completion_status_batch: a dict with one  *)
(* entry per distinct id of the request                                    *)
get_completion_status_batch(comps, event_ids, completion_date) ==
    [id \in {event_ids[k] : k \in DOMAIN event_ids} |->
        completion_status(comps, id, completion_date)]

(* ---------------- user_xp and xp_transactions ---------------- *)
(* xp: [total |-> total_xp, txs |-> xp_transactions]                       *)
(* rows: [points, event_id, description, total_xp_after, created_at]       *)
(* description: [text, event_id, date] stands for the formatted string     *)

Desc(text, event_id, date) == [text |-> text, event_id |-> event_id, date |-> date]

(* XPRepository.add_xp: total and transaction are committed together, or   *)
(* rolled back together when the commit fails                              *)
add_xp(xp, points, event_id, description, created_at, ok) ==
    IF ~ok THEN [xp |-> xp, ret |-> FALSE]
    ELSE [xp |-> [total |-> xp.total + points,
                  txs |-> Append(xp.txs,
                            [points |-> points, event_id |-> event_id,
                             description |-> description,
                             total_xp_after |-> xp.total + points,
                             created_at |-> created_at])],
          ret |-> TRUE]

(* deduct_xp that leaves the decremented total behind when the commit fails *)
deduct_xp_no_rollback(xp, points, event_id, description, created_at, ok) ==
    IF ~ok THEN [xp |-> [xp EXCEPT !.total = @ - points], ret |-> FALSE]
    ELSE [xp |-> [total |-> xp.total - points,
                  txs |-> Append(xp.txs,
                            [points |-> 0 - points, event_id |-> event_id,
                             description |-> description,
                             total_xp_after |-> xp.total - points,
                             created_at |-> created_at])],
          ret |-> TRUE]

(* XPRepository.deduct_xp *)
deduct_xp(xp, points, event_id, description, created_at, ok) ==
    IF ~ok THEN [xp |-> xp, ret |-> FALSE]
    ELSE [xp |-> [total |-> xp.total - points,
                  txs |-> Append(xp.txs,
                            [points |-> 0 - points, event_id |-> event_id,
                             description |-> description,
                             total_xp_after |-> xp.total - points,
                             created_at |-> created_at])],
          ret |-> TRUE]

XP == [total |-> total_xp, txs |-> transactions]

(* level arithmetic applied to negative totals as well *)
get_xp_info_no_floor(total) ==
    [total_xp |-> total,
     level |-> (total \div XP_PER_LEVEL) + 1,
     current_level_xp |-> total % XP_PER_LEVEL,
     xp_for_next_level |-> XP_PER_LEVEL - (total % XP_PER_LEVEL)]

(* XPRepository.get_xp_info on the stored total; // and % of Python round  *)
(* towards minus infinity, as \div and % do                                *)
get_xp_info(total) ==
    IF total < 0
    THEN [total_xp |-> total, level |-> 0,
          current_level_xp |-> 0 - total,
          xp_for_next_level |-> 0 - total]
    ELSE [total_xp |-> total,
          level |-> (total \div XP_PER_LEVEL) + 1,
          current_level_xp |-> total % XP_PER_LEVEL,
          xp_for_next_level |-> XP_PER_LEVEL - (total % XP_PER_LEVEL)]

(* ---------------- task_sessions ---------------- *)
(* rows: [event_id, start_time, end_time, duration_seconds, status] *)

(* a clock difference that is always zero *)
elapsed_zero(start_time, t) == 0

(* int((now - start_time).total_seconds()) *)
elapsed(start_time, t) == t - start_time

(* a lookup that returns the latest session of the event whatever its      *)
(* status                                                                  *)
get_running_session_any_status(sess, event_id) ==
    LET S == {i \in DOMAIN sess : sess[i].event_id = event_id}
    IN IF S = {} THEN 0
       ELSE CHOOSE i \in S : \A j \in S :
              \/ sess[j].start_time < sess[i].start_time
              \/ (sess[j].start_time = sess[i].start_time /\ j <= i)

(* TaskSessionRepository.get_running_session: the running session of the   *)
(* event with the latest start_time (of two rows with one start_time, the  *)
(* one created later), 0 if there is none                                  *)
get_running_session(sess, event_id) ==
    LET S == {i \in DOMAIN sess :
                sess[i].event_id = event_id /\ sess[i].status = "running"}
    IN IF S = {} THEN 0
       ELSE CHOOSE i \in S : \A j \in S :
              \/ sess[j].start_time < sess[i].start_time
              \/ (sess[j].start_time = sess[i].start_time /\ j <= i)

(* start_session that creates the new session without pausing the old one *)
start_session_no_pause(sess, event_id, t, okPause, okCreate) ==
    IF okCreate
    THEN [sess |-> Append(sess,
                     [event_id |-> event_id, start_time |-> t,
                      end_time |-> None, duration_seconds |-> None,
                      status |-> "running"]),
          ret |-> TRUE]
    ELSE [sess |-> sess, ret |-> FALSE]

(* TaskSessionRepository.start_session; okPause and okCreate are the       *)
(* outcomes of the two commits (update of the old row, insert of the new)  *)
start_session(sess, event_id, t, okPause, okCreate) ==
    LET i == get_running_session(sess, event_id)
        paused == IF i # 0 /\ okPause
                  THEN [sess EXCEPT ![i] =
                          [@ EXCEPT !.duration_seconds =
                                       elapsed(sess[i].start_time, t),
                                    !.end_time = t,
                                    !.status = "Paused"]]
                  ELSE sess
    IN IF okCreate
       THEN [sess |-> Append(paused,
                        [event_id |-> event_id, start_time |-> t,
                         end_time |-> None, duration_seconds |-> None,
                         status |-> "running"]),
             ret |-> TRUE]
       ELSE [sess |-> paused, ret |-> FALSE]

(* TaskSessionRepository.pause_session *)
pause_session(sess, event_id, t, ok) ==
    LET i == get_running_session(sess, event_id)
    IN IF i # 0 /\ ok
       THEN [sess |-> [sess EXCEPT ![i] =
                         [@ EXCEPT !.duration_seconds =
                                      elapsed(sess[i].start_time, t)
                                      + (IF Truthy(sess[i].duration_seconds)
                                         THEN sess[i].duration_seconds
                                         ELSE 0),
                                   !.end_time = t,
                                   !.status = "Paused"]],
             ret |-> TRUE]
       ELSE [sess |-> sess, ret |-> FALSE]

(* TaskSessionRepository.get_current_duration.  The query of               *)
(* get_running_session returns rows with status 'running' only, so the     *)
(* 'Paused' branch is never taken.                                         *)
get_current_duration(sess, event_id, t) ==
    LET i == get_running_session(sess, event_id)
    IN IF i = 0 THEN None
       ELSE IF sess[i].status = "running"
       THEN elapsed(sess[i].start_time, t)
            + (IF Truthy(sess[i].duration_seconds)
               THEN sess[i].duration_seconds ELSE 0)
       ELSE IF sess[i].status = "Paused" /\ Truthy(sess[i].duration_seconds)
       THEN sess[i].duration_seconds
       ELSE None

(* datetime.combine(d, datetime.max.time()): the last instant of day d the *)
(* clock can show                                                          *)
MaxTime(d) == d * TicksPerDay + (TicksPerDay - 1)

(* what one session adds in get_time_spent_for_date: nothing when the row  *)
(* is not selected by the query, the stored duration of a done or paused   *)
(* row, the live duration of a running row                                 *)
session_time(s, event_id, start_of_day, end_of_day, t) ==
    IF ~(/\ s.event_id = event_id
         /\ s.start_time >= start_of_day
         /\ s.start_time < end_of_day)
    THEN 0
    ELSE IF s.status \in {"done", "Paused"} /\ Truthy(s.duration_seconds)
    THEN s.duration_seconds
    ELSE IF s.status = "running"
    THEN elapsed(s.start_time, t)
         + (IF Truthy(s.duration_seconds) THEN s.duration_seconds ELSE 0)
    ELSE 0

(* TaskSessionRepository.get_time_spent_for_date; end_of_day is the last   *)
(* instant of the target date plus one day                                 *)
get_time_spent_for_date(sess, event_id, target_date, t) ==
    LET f[i \in 0 .. Len(sess)] ==
            IF i = 0 THEN 0
            ELSE f[i - 1] + session_time(sess[i], event_id,
                                         Midnight(target_date),
                                         MaxTime(target_date) + TicksPerDay,
                                         t)
    IN f[Len(sess)]

(* ---------------- daily_xp_deduction ---------------- *)
(* rows: [last_run_date, pending_count, deducted_count, total_xp_deducted] *)
(* last_run_date is stored as midnight of the day; the model keeps the day *)

(* get_last_run_date that answers with the oldest marker *)
get_last_run_date_oldest(mk) ==
    IF Len(mk) = 0 THEN None ELSE mk[1].last_run_date

(* DailyXPDeductionRepository.get_last_run_date *)
get_last_run_date(mk) ==
    IF Len(mk) = 0 THEN None
    ELSE MaxOf({mk[i].last_run_date : i \in DOMAIN mk})

(* DailyXPDeductionRepository.has_run_today *)
has_run_today(mk, today) ==
    \E i \in DOMAIN mk : mk[i].last_run_date >= today

(* DailyXPDeductionRepository.record_deduction_run: the insert fails when  *)
(* the commit fails or a row of that day exists (last_run_date is unique)  *)
record_deduction_run(mk, today, pending_count, deducted_count, xp_deducted, ok) ==
    IF ok /\ ~(\E i \in DOMAIN mk : mk[i].last_run_date = today)
    THEN [markers |-> Append(mk, [last_run_date |-> today,
                                  pending_count |-> pending_count,
                                  deducted_count |-> deducted_count,
                                  total_xp_deducted |-> xp_deducted]),
          ret |-> TRUE]
    ELSE [markers |-> mk, ret |-> FALSE]

(* TaskStatusCore.should_run_daily_deduction *)
should_run_daily_deduction == ~has_run_today(markers, Today)

(* ---------------- the catch-up pass, one missed day ---------------- *)
(* st: [comps, sess, xp], the stores as the pass has left them so far      *)

(* A fault plan names the one store write of a pass that fails:            *)
(* [off, id, kind], kind "none" when every commit of the pass succeeds.    *)
FaultKinds == {"pause", "comp", "comp_raises", "xp"}
NoFault == [off |-> 0, id |-> NoEvent, kind |-> "none"]
FaultOf(fp, off, id) == IF fp.off = off /\ fp.id = id THEN fp.kind ELSE "none"

(* the elements of seq at the indices in keep, in order *)
AtIndices(seq, keep) ==
    [k \in 1 .. Cardinality(keep) |->
        seq[CHOOSE i \in keep : Cardinality({j \in keep : j <= i}) = k]]

(* base ids without the deduplication of lines 202-207 *)
base_event_ids_raw(items) ==
    LET ids == AtIndices(items, {i \in DOMAIN items : items[i] # NoEvent})
    IN [i \in DOMAIN ids |-> extract_base_event_id(ids[i])]

(* lines 199-207: ids of the fetched events (events without id dropped),   *)
(* normalised, first occurrence of each base id kept                       *)
base_event_ids(items) ==
    LET ids == AtIndices(items, {i \in DOMAIN items : items[i] # NoEvent})
        raw == [i \in DOMAIN ids |-> extract_base_event_id(ids[i])]
    IN AtIndices(raw, {i \in DOMAIN raw :
                         \A j \in 1 .. (i - 1) : raw[j] # raw[i]})

(* classification that does not look at the task's completions *)
Classify_ignores_done(comps, sess, base_id, check_date) ==
    IF \E i \in DOMAIN sess :
          /\ sess[i].event_id = base_id
          /\ sess[i].status = "running"
          /\ DateOf(sess[i].start_time) = check_date
    THEN "running" ELSE "pending"

(* classification that finalizes a running session whatever its start day *)
Classify_any_start(comps, sess, base_id, check_date) ==
    LET status == completion_status(comps, base_id, check_date)
    IN IF status[1] /\ status[2] # None /\ DateOf(status[2]) = check_date
       THEN "done"
       ELSE IF get_running_session(sess, base_id) # 0 THEN "running"
       ELSE "pending"

(* classification that does not look at the task's sessions *)
Classify_no_session(comps, sess, base_id, check_date) ==
    LET status == completion_status(comps, base_id, check_date)
    IN IF status[1] /\ status[2] # None /\ DateOf(status[2]) = check_date
       THEN "done" ELSE "pending"

(* lines 214-241: "done", "running" (to finalize) or "pending" *)
Classify(comps, sess, base_id, check_date) ==
    LET status == completion_status(comps, base_id, check_date)
        done == status[1]
        completed_at == status[2]
        should_deduct ==
            IF ~done THEN TRUE
            ELSE IF completed_at # None
                 THEN DateOf(completed_at) # check_date
                 ELSE TRUE
        i == get_running_session(sess, base_id)
    IN IF ~should_deduct THEN "done"
       ELSE IF i # 0
               /\ sess[i].status = "running"
               /\ sess[i].start_time # None
               /\ DateOf(sess[i].start_time) = check_date
            THEN "running"
            ELSE "pending"

SelectClass(ids, comps, sess, check_date, class) ==
    AtIndices(ids, {i \in DOMAIN ids :
                      Classify(comps, sess, ids[i], check_date) = class})

(* lines 246-274, one running task: f is the write that fails for it       *)
finalize_running_task(st, base_id, check_date, t, f) ==
    LET was_already_done == is_done(st.comps, base_id, check_date)
        p == pause_session(st.sess, base_id, t, f # "pause")
        st1 == [st EXCEPT !.sess = p.sess]
        c == repo_mark_done(st1.comps, base_id, SYSTEM_DESCRIPTION, check_date,
                            EndOfDay(check_date), f # "comp")
        st2 == [st1 EXCEPT !.comps = c.comps]
        x == add_xp(st2.xp, XP_PER_TASK, base_id,
                    Desc("Task completed", base_id, None), t, f # "xp")
    IN IF ~p.ret
       THEN [st |-> st1, completed |-> 0, awarded |-> 0, raised |-> FALSE]
       ELSE IF f = "comp_raises"
       THEN [st |-> st1, completed |-> 0, awarded |-> 0, raised |-> TRUE]
       ELSE IF ~c.ret
       THEN [st |-> st2, completed |-> 0, awarded |-> 0, raised |-> FALSE]
       ELSE IF was_already_done
       THEN [st |-> st2, completed |-> 1, awarded |-> 0, raised |-> FALSE]
       ELSE [st |-> [st2 EXCEPT !.xp = x.xp], completed |-> 1,
             awarded |-> XP_PER_TASK, raised |-> FALSE]

(* lines 268-274: what one finalized task adds to the day; a = [st,        *)
(* pending, count, awarded], r the outcome of finalize_running_task        *)
count_finalized(a, base_id, r) ==
    [st |-> r.st,
     pending |-> IF r.raised THEN Append(a.pending, base_id) ELSE a.pending,
     count |-> a.count + r.completed,
     awarded |-> a.awarded + r.awarded]

(* lines 243-274: the loop over running_tasks_to_complete *)
FinalizeAll(acc, ids, check_date, t, fp, off) ==
    LET f[i \in 0 .. Len(ids)] ==
          IF i = 0 THEN acc
          ELSE count_finalized(f[i - 1], ids[i],
                         finalize_running_task(f[i - 1].st, ids[i], check_date,
                                               t, FaultOf(fp, off, ids[i])))
    IN f[Len(ids)]

(* lines 288-290: what one deduction adds to the day; a = [xp, count,      *)
(* deducted], r the outcome of deduct_xp                                   *)
count_deduction(a, r) ==
    [xp |-> r.xp,
     count |-> a.count + (IF r.ret THEN 1 ELSE 0),
     deducted |-> a.deducted + (IF r.ret THEN XP_PER_TASK ELSE 0)]

(* lines 281-292: the loop over pending_base_ids *)
DeductAll(acc, ids, check_date, t, fp, off) ==
    LET f[i \in 0 .. Len(ids)] ==
          IF i = 0 THEN acc
          ELSE count_deduction(f[i - 1],
                        deduct_xp(f[i - 1].xp, XP_PER_TASK, ids[i],
                                  Desc("Task not completed", ids[i], check_date),
                                  t, FaultOf(fp, off, ids[i]) # "xp"))
    IN f[Len(ids)]

(* lines 299-306: the stores after the day and its entry in days_processed; *)
(* fin is what FinalizeAll left, ded what DeductAll left                    *)
day_result(check_date, fin, ded) ==
    [st |-> [fin.st EXCEPT !.xp = ded.xp],
     day |-> [date |-> check_date,
              pending |-> Len(fin.pending),
              running_stopped |-> fin.count,
              running_xp_awarded |-> fin.awarded,
              deducted |-> ded.count,
              xp |-> ded.deducted]]

(* lines 278-306: the deductions of one day, after its running tasks *)
deduct_day(check_date, fin, t, fp, off) ==
    day_result(check_date, fin,
               DeductAll([xp |-> fin.st.xp, count |-> 0, deducted |-> 0],
                         fin.pending, check_date, t, fp, off))

(* lines 209-306: one day, from its deduplicated base ids *)
process_ids(st, check_date, ids, t, fp, off) ==
    deduct_day(check_date,
               FinalizeAll([st |-> st,
                            pending |-> SelectClass(ids, st.comps, st.sess,
                                                    check_date, "pending"),
                            count |-> 0, awarded |-> 0],
                           SelectClass(ids, st.comps, st.sess, check_date,
                                       "running"),
                           check_date, t, fp, off),
               t, fp, off)

(* lines 199-306: one day that has events *)
ProcessDay(st, check_date, items, t, fp, off) ==
    process_ids(st, check_date, base_event_ids(items), t, fp, off)

(* totals that keep the counts of the last processed day only *)
accumulate_last_day(acc, r) ==
    [st |-> r.st,
     total_pending_count |-> r.day.pending + r.day.running_stopped,
     total_deducted_count |-> r.day.deducted,
     total_xp_deducted |-> r.day.xp,
     total_running_xp_awarded |-> r.day.running_xp_awarded,
     days_processed |-> Append(acc.days_processed, r.day)]

(* lines 294-306: the totals of the pass after one more day; acc =         *)
(* [st, total_pending_count, total_deducted_count, total_xp_deducted,      *)
(* total_running_xp_awarded, days_processed], r = [st, day]                *)
accumulate(acc, r) ==
    [st |-> r.st,
     total_pending_count |-> acc.total_pending_count
         + r.day.pending + r.day.running_stopped,
     total_deducted_count |-> acc.total_deducted_count + r.day.deducted,
     total_xp_deducted |-> acc.total_xp_deducted + r.day.xp,
     total_running_xp_awarded |-> acc.total_running_xp_awarded
         + r.day.running_xp_awarded,
     days_processed |-> Append(acc.days_processed, r.day)]

(* lines 178-310, one iteration: a failed fetch and a day without events   *)
(* are skipped; answer is what the calendar returns for check_date         *)
day_step(acc, check_date, answer, t, fp, off) ==
    IF ~answer.ok \/ answer.items = << >> THEN acc
    ELSE accumulate(acc, ProcessDay(acc.st, check_date, answer.items,
                                    t, fp, off))

(* a loop that stops walking at the first day whose fetch fails *)
DayLoop_stops_at_failure(acc, days_since, today, cal, t, fp) ==
    LET f[off \in 0 .. days_since] ==
          IF off = 0 THEN acc
          ELSE IF \E k \in 1 .. off : ~cal[k].ok THEN f[off - 1]
          ELSE day_step(f[off - 1], today - off, cal[off], t, fp, off)
    IN f[days_since]

(* lines 177-310: cal[off] is what the calendar answers for today - off *)
DayLoop(acc, days_since, today, cal, t, fp) ==
    LET f[off \in 0 .. days_since] ==
          IF off = 0 THEN acc
          ELSE day_step(f[off - 1], today - off, cal[off], t, fp, off)
    IN f[days_since]

(* lines 320, 332: sum(d.get('running_stopped', 0) for d in days_processed) *)
SumRunningStopped(days) ==
    LET f[i \in 0 .. Len(days)] ==
          IF i = 0 THEN 0 ELSE f[i - 1] + days[i].running_stopped
    IN f[Len(days)]

(* a count of missed days that takes the distance to a marker in the future *)
days_since_last_run_distance(mk, today) ==
    LET last_run_date == get_last_run_date(mk)
    IN IF last_run_date = None THEN 1
       ELSE IF today - last_run_date = 0 THEN 0
       ELSE IF today - last_run_date < 0 THEN last_run_date - today
       ELSE today - last_run_date

(* a count of missed days that includes the day before the last run *)
days_since_last_run_inclusive(mk, today) ==
    LET last_run_date == get_last_run_date(mk)
    IN IF last_run_date = None THEN 1
       ELSE IF today - last_run_date = 0 THEN 0
       ELSE IF today - last_run_date < 0 THEN 1
       ELSE today - last_run_date + 1

(* lines 143-159: 0 stands for "already ran today" *)
days_since_last_run(mk, today) ==
    LET last_run_date == get_last_run_date(mk)
    IN IF last_run_date = None THEN 1
       ELSE IF today - last_run_date = 0 THEN 0
       ELSE IF today - last_run_date < 0 THEN 1
       ELSE today - last_run_date

(* a pass that does not check that the calendar is authenticated *)
pass_outcome_no_auth_check(days_since, calendar) ==
    IF days_since = 0 THEN "already_ran"
    ELSE IF calendar = "raises" THEN "error"
    ELSE "completed"

(* lines 148-169, 339-349: how a pass ends, from the days it has to walk   *)
(* and the state of the calendar collaborator                              *)
pass_outcome(days_since, calendar) ==
    IF days_since = 0 THEN "already_ran"
    ELSE IF calendar = "raises" THEN "error"
    ELSE IF calendar = "unauthenticated" THEN "unauthenticated"
    ELSE "completed"

(* XP awarded on every completion *)
awards_xp_always(was_already_done) == TRUE

(* line 58: XP only on the first completion of the day *)
awards_xp(was_already_done) == ~was_already_done

(* ---------------- inputs of the operations ---------------- *)
Days == 0 .. MaxDay
CalLists == {<< >>, <<IdA>>, <<IdA1, IdA2, IdB>>}
CalResults == {[ok |-> FALSE, items |-> << >>]}
              \cup {[ok |-> TRUE, items |-> l] : l \in CalLists}
CalendarStates == {"authenticated", "unauthenticated", "raises"}
FaultPlans == {[off |-> o, id |-> e, kind |-> k] :
                 o \in 1 .. (MaxDay + 1), e \in BaseIds, k \in FaultKinds}

Init ==
    /\ now = 0
    /\ completions = << >>
    /\ sessions = << >>
    /\ total_xp = 0
    /\ transactions = << >>
    /\ markers = << >>
    /\ last = [op |-> "init"]
    /\ ops = 0
    /\ budget = MaxOps
    /\ walked = << >>
    /\ inflight = [p \in Callers |-> Idle]

(* the clock advances *)
Tick ==
    /\ now + 1 < (MaxDay + 1) * TicksPerDay
    /\ now' = now + 1
    /\ last' = [op |-> "tick"]
    /\ UNCHANGED <<completions, sessions, total_xp, transactions, markers, ops,
                    budget, walked, inflight>>

(* one call of the application: the model follows budget calls *)
Called == ops < budget /\ ops' = ops + 1 /\ UNCHANGED <<budget, inflight>>

(* what a call found before it acted, kept with its result in last *)
Pre == [total_xp |-> total_xp, n_tx |-> Len(transactions),
        n_markers |-> Len(markers)]

(* a result that reports the failed XP write as a failure of the call *)
mark_result_needs_xp(xp_written) == IF xp_written THEN "True" ELSE "False"

(* what mark_event_done and mark_event_undone return once the completion   *)
(* is written: the XP write sits in its own try block and its result is    *)
(* not looked at                                                           *)
mark_result(xp_written) == "True"

(* TaskStatusCore.mark_event_done; xp_ok records whether XP was written,   *)
(* which the caller does not see; commits records the outcome of the       *)
(* completion commit and of the XP commit                                  *)
MarkEventDone(event_id, description, date_arg, okC, okX) ==
    LET completion_date == IF date_arg = None THEN Today ELSE date_arg
        was_already_done == is_done(completions, event_id, completion_date)
        c == repo_mark_done(completions, event_id, Strip(description),
                            completion_date, None, okC)
        x == add_xp(XP, XP_PER_TASK, event_id,
                    Desc("Task completed", event_id, None), now, okX)
        call == [op |-> "mark_event_done", event_id |-> event_id,
                 description |-> description,
                 completion_date |-> completion_date,
                 was_already_done |-> was_already_done, pre |-> Pre,
                 commits |-> <<okC, okX>>]
    IN /\ Called
       /\ UNCHANGED <<now, sessions, markers, walked>>
       /\ IF Strip(description) = ""
          THEN /\ last' = [call EXCEPT !.was_already_done = FALSE]
                          @@ [ret |-> "ValueError", xp_ok |-> FALSE]
               /\ UNCHANGED <<completions, total_xp, transactions>>
          ELSE IF ~c.ret
          THEN /\ last' = call @@ [ret |-> "False", xp_ok |-> FALSE]
               /\ UNCHANGED <<completions, total_xp, transactions>>
          ELSE /\ completions' = c.comps
               /\ IF awards_xp(was_already_done)
                  THEN /\ total_xp' = x.xp.total
                       /\ transactions' = x.xp.txs
                       /\ last' = call @@ [ret |-> mark_result(x.ret),
                                            xp_ok |-> x.ret]
                  ELSE /\ UNCHANGED <<total_xp, transactions>>
                       /\ last' = call @@ [ret |-> "True", xp_ok |-> FALSE]

(* TaskStatusCore.mark_event_undone *)
MarkEventUndone(event_id, date_arg, okC, okX) ==
    LET completion_date == IF date_arg = None THEN Today ELSE date_arg
        c == repo_mark_undone(completions, event_id, completion_date, okC)
        x == deduct_xp(XP, XP_PER_TASK, event_id,
                       Desc("Task undone", event_id, None), now, okX)
        call == [op |-> "mark_event_undone", event_id |-> event_id,
                 completion_date |-> completion_date,
                 was_done |-> is_done(completions, event_id, completion_date),
                 pre |-> Pre, commits |-> <<okC, okX>>]
    IN /\ Called
       /\ UNCHANGED <<now, sessions, markers, walked>>
       /\ IF ~c.ret
          THEN /\ last' = call @@ [ret |-> "False", xp_ok |-> FALSE]
               /\ UNCHANGED <<completions, total_xp, transactions>>
          ELSE /\ completions' = c.comps
               /\ total_xp' = x.xp.total
               /\ transactions' = x.xp.txs
               /\ last' = call @@ [ret |-> mark_result(x.ret),
                                    xp_ok |-> x.ret]

(* XPRepository.add_xp and deduct_xp called directly, no event, default    *)
(* description                                                             *)
AddXp(points, ok) ==
    LET x == add_xp(XP, points, NoEvent,
                    Desc("Task completed (+XP)", NoEvent, None), now, ok)
    IN /\ Called
       /\ total_xp' = x.xp.total
       /\ transactions' = x.xp.txs
       /\ last' = [op |-> "add_xp", points |-> points, ret |-> x.ret,
                   pre |-> Pre]
       /\ UNCHANGED <<now, completions, sessions, markers, walked>>

DeductXp(points, ok) ==
    LET x == deduct_xp(XP, points, NoEvent,
                       Desc("Task undone (-XP)", NoEvent, None), now, ok)
    IN /\ Called
       /\ total_xp' = x.xp.total
       /\ transactions' = x.xp.txs
       /\ last' = [op |-> "deduct_xp", points |-> points, ret |-> x.ret,
                   pre |-> Pre]
       /\ UNCHANGED <<now, completions, sessions, markers, walked>>

(* TaskSessionCore.start_session *)
StartSession(event_id, okPause, okCreate) ==
    LET r == start_session(sessions, event_id, now, okPause, okCreate)
    IN /\ Called
       /\ sessions' = r.sess
       /\ last' = [op |-> "start_session", event_id |-> event_id,
                   ret |-> r.ret]
       /\ UNCHANGED <<now, completions, total_xp, transactions, markers,
                      walked>>

(* TaskSessionCore.pause_session *)
PauseSession(event_id, ok) ==
    LET r == pause_session(sessions, event_id, now, ok)
    IN /\ Called
       /\ sessions' = r.sess
       /\ last' = [op |-> "pause_session", event_id |-> event_id,
                   ret |-> r.ret]
       /\ UNCHANGED <<now, completions, total_xp, transactions, markers,
                      walked>>

(* TaskStatusCore.deduct_xp_for_pending_tasks_from_yesterday.  last keeps  *)
(* the returned dict, the calendar's answers and the stores as the pass    *)
(* found them.                                                             *)
Reconcile(calendar, cal, fp, okMarker) ==
    LET today == Today
        days_since == days_since_last_run(markers, today)
        outcome == pass_outcome(days_since, calendar)
        call == [op |-> "reconcile", today |-> today,
                 days_since |-> days_since, cal |-> cal,
                 calendar |-> calendar,
                 pre |-> Pre @@ [completions |-> completions,
                                 sessions |-> sessions]]
        zero == [pending_count |-> 0, deducted_count |-> 0,
                 total_xp_deducted |-> 0]
        start == [st |-> [comps |-> completions, sess |-> sessions,
                          xp |-> XP],
                  total_pending_count |-> 0,
                  total_deducted_count |-> 0,
                  total_xp_deducted |-> 0,
                  total_running_xp_awarded |-> 0,
                  days_processed |-> << >>]
    IN /\ Called
       /\ UNCHANGED now
       /\ IF outcome = "completed"
          THEN \E acc \in {DayLoop(start, days_since, today, cal, now, fp)} :
               /\ markers' = record_deduction_run(
                                 markers, today, acc.total_pending_count,
                                 acc.total_deducted_count,
                                 acc.total_xp_deducted, okMarker).markers
               /\ walked' = walked \o [off \in 1 .. days_since |->
                                         [date |-> today - off,
                                          run |-> today]]
               /\ completions' = acc.st.comps
               /\ sessions' = acc.st.sess
               /\ total_xp' = acc.st.xp.total
               /\ transactions' = acc.st.xp.txs
               /\ last' = call @@
                    [success |-> TRUE,
                     pending_count |-> acc.total_pending_count,
                     deducted_count |-> acc.total_deducted_count,
                     total_xp_deducted |-> acc.total_xp_deducted,
                     running_stopped_count |->
                         SumRunningStopped(acc.days_processed),
                     running_xp_awarded |-> acc.total_running_xp_awarded,
                     days_processed |-> days_since,
                     days_breakdown |-> acc.days_processed,
                     message |-> IF acc.total_deducted_count = 0
                                 THEN "No pending tasks" ELSE "Deducted"]
          ELSE /\ UNCHANGED <<completions, sessions, total_xp, transactions,
                              markers, walked>>
               /\ last' = call @@ zero @@
                    [success |-> outcome = "already_ran",
                     message |->
                       IF outcome = "already_ran"
                       THEN "Deduction already ran today"
                       ELSE IF outcome = "unauthenticated"
                       THEN "Calendar service not authenticated"
                       ELSE "Error"]

(* what the calendar answers for each of the days a pass walks *)
CalendarAnswers == [1 .. days_since_last_run(markers, Today) -> CalResults]

(* every store commit succeeds, the clock never runs backwards *)
Next ==
    \/ Tick
    \/ \E e \in BaseIds, s \in Descriptions, d \in Days \cup {None} :
         MarkEventDone(e, s, d, TRUE, TRUE)
    \/ \E e \in BaseIds, d \in Days \cup {None} :
         MarkEventUndone(e, d, TRUE, TRUE)
    \/ AddXp(XP_PER_TASK, TRUE)
    \/ DeductXp(XP_PER_TASK, TRUE)
    \/ \E e \in BaseIds : StartSession(e, TRUE, TRUE)
    \/ \E e \in BaseIds : PauseSession(e, TRUE)
    \/ \E c \in CalendarStates, cal \in CalendarAnswers :
         Reconcile(c, cal, NoFault, TRUE)

Spec == Init /\ [][Next]_vars

(* the clock is set back by a day *)
ClockBack ==
    /\ now - TicksPerDay >= 0
    /\ now' = now - TicksPerDay
    /\ last' = [op |-> "clock_back"]
    /\ UNCHANGED <<completions, sessions, total_xp, transactions, markers, ops,
                    budget, walked, inflight>>

(* the fault plans that name a task one of the walked days lists *)
FaultPlansFor(cal) ==
    {fp \in FaultPlans :
        /\ fp.off \in DOMAIN cal
        /\ \E i \in DOMAIN cal[fp.off].items :
              extract_base_event_id(cal[fp.off].items[i]) = fp.id}

(* any store commit may fail, the clock may be set back *)
NextFault ==
    \/ Tick
    \/ ClockBack
    \/ \E e \in BaseIds, s \in Descriptions, d \in Days \cup {None},
          okC \in BOOLEAN, okX \in BOOLEAN :
         MarkEventDone(e, s, d, okC, okX)
    \/ \E e \in BaseIds, d \in Days \cup {None},
          okC \in BOOLEAN, okX \in BOOLEAN :
         MarkEventUndone(e, d, okC, okX)
    \/ \E ok \in BOOLEAN : AddXp(XP_PER_TASK, ok)
    \/ \E ok \in BOOLEAN : DeductXp(XP_PER_TASK, ok)
    \/ \E e \in BaseIds, okP \in BOOLEAN, okN \in BOOLEAN :
         StartSession(e, okP, okN)
    \/ \E e \in BaseIds, ok \in BOOLEAN : PauseSession(e, ok)
    \/ \E c \in CalendarStates, cal \in CalendarAnswers, okM \in BOOLEAN :
         \E fp \in FaultPlansFor(cal) \cup {NoFault} :
            Reconcile(c, cal, fp, okM)

(* the same program followed for MaxFaultOps calls *)
InitFault ==
    /\ now = 0
    /\ completions = << >>
    /\ sessions = << >>
    /\ total_xp = 0
    /\ transactions = << >>
    /\ markers = << >>
    /\ last = [op |-> "init"]
    /\ ops = 0
    /\ budget = MaxFaultOps
    /\ walked = << >>
    /\ inflight = [p \in Callers |-> Idle]

SpecFault == InitFault /\ [][NextFault]_vars

(* ---------------- the XP ledger on its own ---------------- *)

(* amounts given to add_xp and deduct_xp *)
XpAmounts == {XP_PER_TASK, 50, XP_PER_LEVEL}

(* XPRepository.get_xp_info: reads the total, writes nothing *)
GetXpInfo ==
    /\ Called
    /\ last' = [op |-> "get_xp_info", info |-> get_xp_info(total_xp)]
    /\ UNCHANGED <<now, completions, sessions, total_xp, transactions,
                   markers, walked>>

NextXp ==
    \/ \E p \in XpAmounts : AddXp(p, TRUE)
    \/ \E p \in XpAmounts : DeductXp(p, TRUE)
    \/ GetXpInfo

InitXp ==
    /\ now = 0
    /\ completions = << >>
    /\ sessions = << >>
    /\ total_xp = 0
    /\ transactions = << >>
    /\ markers = << >>
    /\ last = [op |-> "init"]
    /\ ops = 0
    /\ budget = MaxXpOps
    /\ walked = << >>
    /\ inflight = [p \in Callers |-> Idle]

SpecXp == InitXp /\ [][NextXp]_vars

(* ---------------- event-id normalisation on its own ---------------- *)

(* the characters of the ids: a letter, the separator, and the two         *)
(* characters the suffix test looks for                                    *)
IdChars == {"a", "_", "T", "Z"}
EventIds == UNION {[1 .. n -> IdChars] : n \in 0 .. MaxIdLen}

(* one call of extract_base_event_id on the id drawn at the start *)
ExtractBaseEventId ==
    /\ Called
    /\ last.op = "input"
    /\ last' = [op |-> "extract_base_event_id", event_id |-> last.event_id,
                ret |-> extract_base_event_id(last.event_id)]
    /\ UNCHANGED <<now, completions, sessions, total_xp, transactions,
                   markers, walked>>

NextIds == ExtractBaseEventId

InitIds ==
    /\ now = 0
    /\ completions = << >>
    /\ sessions = << >>
    /\ total_xp = 0
    /\ transactions = << >>
    /\ markers = << >>
    /\ \E x \in EventIds : last = [op |-> "input", event_id |-> x]
    /\ ops = 0
    /\ budget = 1
    /\ walked = << >>
    /\ inflight = [p \in Callers |-> Idle]

SpecIds == InitIds /\ [][NextIds]_vars

(* ---------------- marking and unmarking on their own ---------------- *)

(* calls of mark_event_done and mark_event_undone only, every commit       *)
(* succeeding, for any task and any day                                    *)
NextMarks ==
    \/ Tick
    \/ \E e \in BaseIds, s \in Descriptions, d \in Days \cup {None} :
         MarkEventDone(e, s, d, TRUE, TRUE)
    \/ \E e \in BaseIds, d \in Days \cup {None} :
         MarkEventUndone(e, d, TRUE, TRUE)

InitMarks ==
    /\ now = 0
    /\ completions = << >>
    /\ sessions = << >>
    /\ total_xp = 0
    /\ transactions = << >>
    /\ markers = << >>
    /\ last = [op |-> "init"]
    /\ ops = 0
    /\ budget = MaxMarkOps
    /\ walked = << >>
    /\ inflight = [p \in Callers |-> Idle]

SpecMarks == InitMarks /\ [][NextMarks]_vars

(* ---------------- two callers, one step at a time ---------------- *)

(* Each caller has its own TaskStatusCore / TaskSessionCore and database   *)
(* sessions; nothing locks across the reads and commits of one operation,  *)
(* so the steps of two calls can interleave.  Every commit succeeds.       *)

(* mark_event_done, line 53: the was-already-done check *)
MarkDoneCheck(p, event_id, date_arg) ==
    LET completion_date == IF date_arg = None THEN Today ELSE date_arg
    IN /\ inflight[p] = Idle
       /\ ops < budget
       /\ ops' = ops + 1
       /\ inflight' = [inflight EXCEPT ![p] =
             [pc |-> "mark_done", event_id |-> event_id,
              completion_date |-> completion_date,
              was_already_done |->
                  is_done(completions, event_id, completion_date)]]
       /\ UNCHANGED <<now, completions, sessions, total_xp, transactions,
                      markers, last, budget, walked>>

(* mark_event_done, line 54: the completion upsert *)
MarkDoneUpsert(p) ==
    /\ inflight[p].pc = "mark_done"
    /\ completions' = repo_mark_done(completions, inflight[p].event_id,
                                     "note", inflight[p].completion_date,
                                     None, TRUE).comps
    /\ inflight' = [inflight EXCEPT ![p].pc = "add_xp"]
    /\ UNCHANGED <<now, sessions, total_xp, transactions, markers, last, ops,
                   budget, walked>>

(* mark_event_done, lines 58-68: the XP award and the return *)
MarkDoneAward(p) ==
    LET c == inflight[p]
        x == add_xp(XP, XP_PER_TASK, c.event_id,
                    Desc("Task completed", c.event_id, None), now, TRUE)
    IN /\ c.pc = "add_xp"
       /\ IF awards_xp(c.was_already_done)
          THEN total_xp' = x.xp.total /\ transactions' = x.xp.txs
          ELSE UNCHANGED <<total_xp, transactions>>
       /\ inflight' = [inflight EXCEPT ![p] = Idle]
       /\ last' = [op |-> "mark_event_done", caller |-> p,
                   event_id |-> c.event_id,
                   completion_date |-> c.completion_date,
                   was_already_done |-> c.was_already_done, ret |-> "True"]
       /\ UNCHANGED <<now, completions, sessions, markers, ops, budget,
                      walked>>

(* start_session, line 65: the read of the running session *)
StartSessionRead(p, event_id) ==
    /\ inflight[p] = Idle
    /\ ops < budget
    /\ ops' = ops + 1
    /\ inflight' = [inflight EXCEPT ![p] =
          [pc |-> "pause_existing", event_id |-> event_id,
           existing |-> get_running_session(sessions, event_id)]]
    /\ UNCHANGED <<now, completions, sessions, total_xp, transactions,
                   markers, last, budget, walked>>

(* start_session, lines 66-73: the row that was read is written back as    *)
(* paused, whatever has happened to it since                               *)
StartSessionPause(p) ==
    LET i == inflight[p].existing
    IN /\ inflight[p].pc = "pause_existing"
       /\ sessions' = IF i = 0 THEN sessions
                      ELSE [sessions EXCEPT ![i] =
                              [@ EXCEPT !.duration_seconds =
                                           elapsed(sessions[i].start_time, now),
                                        !.end_time = now,
                                        !.status = "Paused"]]
       /\ inflight' = [inflight EXCEPT ![p].pc = "create"]
       /\ UNCHANGED <<now, completions, total_xp, transactions, markers, last,
                      ops, budget, walked>>

(* start_session, lines 76-80: the new running session *)
StartSessionCreate(p) ==
    /\ inflight[p].pc = "create"
    /\ sessions' = Append(sessions,
                          [event_id |-> inflight[p].event_id,
                           start_time |-> now, end_time |-> None,
                           duration_seconds |-> None, status |-> "running"])
    /\ inflight' = [inflight EXCEPT ![p] = Idle]
    /\ last' = [op |-> "start_session", caller |-> p,
                event_id |-> inflight[p].event_id, ret |-> TRUE]
    /\ UNCHANGED <<now, completions, total_xp, transactions, markers, ops,
                   budget, walked>>

NextRace ==
    \/ Tick
    \/ \E p \in Callers, e \in BaseIds, d \in Days \cup {None} :
         MarkDoneCheck(p, e, d)
    \/ \E p \in Callers : MarkDoneUpsert(p)
    \/ \E p \in Callers : MarkDoneAward(p)
    \/ \E p \in Callers, e \in BaseIds : StartSessionRead(p, e)
    \/ \E p \in Callers : StartSessionPause(p)
    \/ \E p \in Callers : StartSessionCreate(p)

InitRace ==
    /\ now = 0
    /\ completions = << >>
    /\ sessions = << >>
    /\ total_xp = 0
    /\ transactions = << >>
    /\ markers = << >>
    /\ last = [op |-> "init"]
    /\ ops = 0
    /\ budget = MaxRaceOps
    /\ walked = << >>
    /\ inflight = [p \in Callers |-> Idle]

SpecRace == InitRace /\ [][NextRace]_vars

(* ---------------- the properties ---------------- *)

(* a step that is one call of the named operation *)
CallStep(op) == ops' = ops + 1 /\ last'.op = op

(* the transactions a step appends *)
NewTransactions ==
    SubSeq(transactions', Len(transactions) + 1, Len(transactions'))

(* the step only appends to the ledger *)
LedgerGrows ==
    /\ Len(transactions') >= Len(transactions)
    /\ SubSeq(transactions', 1, Len(transactions)) = transactions

(* the store holds a done completion of the task whose instant is on day d *)
DoneOn(comps, e, d) ==
    \E i \in DOMAIN comps :
        /\ comps[i].event_id = e
        /\ comps[i].is_done
        /\ comps[i].completed_at # None
        /\ DateOf(comps[i].completed_at) = d

SumSeq(q) ==
    LET f[i \in 0 .. Len(q)] == IF i = 0 THEN 0 ELSE f[i - 1] + q[i]
    IN f[Len(q)]

SumPoints(txs) == SumSeq([i \in DOMAIN txs |-> txs[i].points])

(* the task has a running session whose start time is on day d *)
RunningOn(sess, e, d) ==
    \E i \in DOMAIN sess :
        /\ sess[i].event_id = e
        /\ sess[i].status = "running"
        /\ DateOf(sess[i].start_time) = d

(* the calendar's answer for the day off days back lists the task *)
OccursOn(cal, off, e) ==
    /\ off \in DOMAIN cal
    /\ cal[off].ok
    /\ \E k \in DOMAIN cal[off].items :
          /\ cal[off].items[k] # NoEvent
          /\ extract_base_event_id(cal[off].items[k]) = e

(* a step that is a pass walking its missed days with a working calendar *)
PassStep ==
    /\ CallStep("reconcile")
    /\ last'.calendar = "authenticated"
    /\ last'.message # "Deduction already ran today"

(* C1: a mark_event_done call with a valid description succeeds; when the   *)
(* (task, day) was not done before it adds XP_PER_TASK to total_xp and      *)
(* appends exactly one award transaction for the task; when the (task, day) *)
(* was already done (a second or later call) it leaves total_xp and the     *)
(* ledger as they were.                                                     *)
C1_AwardedOnce ==
    [][(CallStep("mark_event_done") /\ Strip(last'.description) # "")
       => LET e == last'.event_id
              d == last'.completion_date
          IN /\ last'.ret = "True"
             /\ DoneOn(completions', e, d)
             /\ IF DoneOn(completions, e, d)
                THEN total_xp' = total_xp /\ transactions' = transactions
                ELSE /\ total_xp' = total_xp + XP_PER_TASK
                     /\ LedgerGrows
                     /\ Len(NewTransactions) = 1
                     /\ NewTransactions[1].points = XP_PER_TASK
                     /\ NewTransactions[1].event_id = e]_vars

(* the second mark_event_done of a (task, day): one award in the ledger *)
C1_Witness ==
    /\ last.op = "mark_event_done"
    /\ last.ret = "True"
    /\ last.was_already_done
    /\ total_xp = XP_PER_TASK
    /\ Len(transactions) = 1

(* C2: in every reachable state, also after ledger writes that failed and   *)
(* were rolled back, total_xp is the sum of the points of the stored        *)
(* transactions.                                                            *)
C2_TotalIsSumOfPoints == total_xp = SumPoints(transactions)

(* an undo whose ledger write failed, after an award that was written *)
C2_Witness ==
    /\ last.op = "mark_event_undone"
    /\ last.ret = "True"
    /\ ~last.xp_ok
    /\ Len(transactions) = 1
    /\ total_xp = XP_PER_TASK

(* C3: every task has at most one session whose status is running. *)
C3_OneRunningSession ==
    \A i, j \in DOMAIN sessions :
        (/\ sessions[i].event_id = sessions[j].event_id
         /\ sessions[i].status = "running"
         /\ sessions[j].status = "running") => i = j

(* a task started twice: its first session paused, its second running *)
C3_Witness ==
    /\ last.op = "start_session"
    /\ \E i, j \in DOMAIN sessions :
          /\ i < j
          /\ sessions[i].event_id = sessions[j].event_id
          /\ sessions[i].status = "Paused"
          /\ sessions[j].status = "running"

(* C4: no two completion records of one task have their completion instant *)
(* on the same calendar day (a record whose instant was cleared by an undo  *)
(* belongs to no day).                                                      *)
C4_OneCompletionPerDay ==
    \A i, j \in DOMAIN completions :
        (/\ completions[i].event_id = completions[j].event_id
         /\ completions[i].completed_at # None
         /\ completions[j].completed_at # None
         /\ DateOf(completions[i].completed_at)
              = DateOf(completions[j].completed_at)) => i = j

(* a task done on two days and marked done again on one of them: two       *)
(* records, one per day                                                    *)
C4_Witness ==
    /\ last.op = "mark_event_done"
    /\ last.ret = "True"
    /\ last.was_already_done
    /\ Len(completions) = 2
    /\ completions[1].event_id = completions[2].event_id
    /\ completions[1].is_done /\ completions[2].is_done
    /\ DateOf(completions[1].completed_at) # DateOf(completions[2].completed_at)

(* C5: a reconciliation called on a day for which a pass has already left *)
(* its marker returns success with pending, deducted and XP-deducted       *)
(* counts zero and changes neither XP, completions, sessions nor markers.  *)
C5_SecondPassIsNoOp ==
    [][(/\ CallStep("reconcile")
        /\ \E i \in DOMAIN markers : markers[i].last_run_date = Today)
       => /\ last'.success
          /\ last'.pending_count = 0
          /\ last'.deducted_count = 0
          /\ last'.total_xp_deducted = 0
          /\ UNCHANGED <<total_xp, transactions, completions, sessions,
                         markers>>]_vars

(* a pass that deducted, then a second call on the same day *)
C5_Witness ==
    /\ last.op = "reconcile"
    /\ last.success
    /\ last.message = "Deduction already ran today"
    /\ Len(markers) = 1
    /\ markers[1].last_run_date = Today
    /\ markers[1].deducted_count > 0
    /\ Len(transactions) = markers[1].deducted_count

C7_FailureWritesNoMarker ==
    [][CallStep("reconcile")
       => /\ (/\ last'.calendar # "authenticated"
              /\ last'.message # "Deduction already ran today")
             => ~last'.success
          /\ ~last'.success
             => /\ markers' = markers
                /\ {"success", "pending_count", "deducted_count",
                    "total_xp_deducted", "message"} \subseteq DOMAIN last'
                /\ last'.pending_count = 0
                /\ last'.deducted_count = 0
                /\ last'.total_xp_deducted = 0]_vars

(* a pass that wrote its marker, then on a later day a pass that failed *)
C7_Witness ==
    /\ last.op = "reconcile"
    /\ ~last.success
    /\ last.calendar = "raises"
    /\ last.days_since > 0
    /\ Len(markers) = 1
    /\ markers[1].last_run_date < Today

(* C8: for every task a walked day D lists that is not done on D and has a *)
(* running session started on D, the pass pauses that session, leaves a   *)
(* done completion of (task, D) with the system description and appends    *)
(* exactly one award of XP_PER_TASK for the task.                          *)
C8_RunningTaskFinalized ==
    [][PassStep
       => \A off \in DOMAIN last'.cal, e \in BaseIds :
             (/\ OccursOn(last'.cal, off, e)
              /\ ~DoneOn(completions, e, Today - off)
              /\ RunningOn(sessions, e, Today - off))
             => /\ Len(sessions') = Len(sessions)
                /\ \A i \in DOMAIN sessions :
                      (/\ sessions[i].event_id = e
                       /\ sessions[i].status = "running")
                      => sessions'[i].status = "Paused"
                /\ \E i \in DOMAIN completions' :
                      /\ completions'[i].event_id = e
                      /\ completions'[i].is_done
                      /\ completions'[i].completed_at # None
                      /\ DateOf(completions'[i].completed_at) = Today - off
                      /\ completions'[i].completion_description
                           = SYSTEM_DESCRIPTION
                /\ Cardinality({k \in DOMAIN NewTransactions :
                                  /\ NewTransactions[k].event_id = e
                                  /\ NewTransactions[k].points > 0}) = 1
                /\ \A k \in DOMAIN NewTransactions :
                      (/\ NewTransactions[k].event_id = e
                       /\ NewTransactions[k].points > 0)
                      => NewTransactions[k].points = XP_PER_TASK]_vars

(* a timer left running yesterday, stopped and completed by today's pass *)
C8_Witness ==
    /\ last.op = "reconcile"
    /\ last.message = "No pending tasks"
    /\ last.running_stopped_count = 1
    /\ last.running_xp_awarded = XP_PER_TASK
    /\ total_xp = last.pre.total_xp + XP_PER_TASK
    /\ Len(sessions) = 1
    /\ sessions[1].status = "Paused"
    /\ Len(completions) = 1
    /\ completions[1].completion_description = SYSTEM_DESCRIPTION

(* C9: for every task a walked day D lists that is not done on D and has   *)
(* no running session started on D, the pass appends exactly one           *)
(* transaction of -XP_PER_TASK for the task whose description names D and  *)
(* the task; total_xp changes by the points the pass appended.             *)
C9_PendingTaskDeductedOnce ==
    [][PassStep
       => /\ LedgerGrows
          /\ total_xp' = total_xp + SumPoints(NewTransactions)
          /\ \A off \in DOMAIN last'.cal, e \in BaseIds :
                (/\ OccursOn(last'.cal, off, e)
                 /\ ~DoneOn(completions, e, Today - off)
                 /\ ~RunningOn(sessions, e, Today - off))
                => /\ Cardinality(
                        {k \in DOMAIN NewTransactions :
                           /\ NewTransactions[k].event_id = e
                           /\ NewTransactions[k].description
                                = Desc("Task not completed", e, Today - off)})
                        = 1
                   /\ \A k \in DOMAIN NewTransactions :
                         NewTransactions[k].description
                           = Desc("Task not completed", e, Today - off)
                         => NewTransactions[k].points = 0 - XP_PER_TASK]_vars

(* a missed day that lists one task twice and another once, none done: two *)
(* deductions                                                              *)
C9_Witness ==
    /\ last.op = "reconcile"
    /\ last.message = "Deducted"
    /\ last.days_since = 1
    /\ last.cal[1].items = <<IdA1, IdA2, IdB>>
    /\ last.deducted_count = 2
    /\ Len(transactions) = last.pre.n_tx + 2
    /\ total_xp = last.pre.total_xp - 2 * XP_PER_TASK

(* C10: mark_event_undone of a (task, day) that is done succeeds, takes     *)
(* XP_PER_TASK from total_xp, appends exactly one transaction of            *)
(* -XP_PER_TASK for the task, and the (task, day) is no longer done.        *)
C10_UndoDeductsOnce ==
    [][(/\ CallStep("mark_event_undone")
        /\ DoneOn(completions, last'.event_id, last'.completion_date))
       => /\ last'.ret = "True"
          /\ total_xp' = total_xp - XP_PER_TASK
          /\ LedgerGrows
          /\ Len(NewTransactions) = 1
          /\ NewTransactions[1].points = 0 - XP_PER_TASK
          /\ NewTransactions[1].event_id = last'.event_id
          /\ ~DoneOn(completions', last'.event_id, last'.completion_date)
          /\ ~is_done(completions', last'.event_id,
                      last'.completion_date)]_vars

(* a task marked done and then undone: the award and its deduction *)
C10_Witness ==
    /\ last.op = "mark_event_undone"
    /\ last.was_done
    /\ last.ret = "True"
    /\ total_xp = 0
    /\ Len(transactions) = 2
    /\ transactions[2].points = 0 - XP_PER_TASK
    /\ Len(completions) = 1
    /\ ~completions[1].is_done

(* C11: after a mark_done of (task, D) that succeeds, the task is done on  *)
(* D, and every other (task, day) pair is done exactly when it was done    *)
(* before the call.                                                        *)
C11_MarkDoneFrame ==
    [][(CallStep("mark_event_done") /\ last'.ret = "True")
       => LET e == last'.event_id
              d == last'.completion_date
          IN /\ DoneOn(completions', e, d)
             /\ \A e2 \in BaseIds, d2 \in Days :
                   <<e2, d2>> # <<e, d>>
                   => (DoneOn(completions', e2, d2)
                         <=> DoneOn(completions, e2, d2))]_vars

(* a task done on day 0 is then marked done on day 1: both days are done,  *)
(* the other task is done on neither                                       *)
C11_Witness ==
    /\ last.op = "mark_event_done"
    /\ last.ret = "True"
    /\ last.event_id = IdA
    /\ last.completion_date = 1
    /\ ~last.was_already_done
    /\ DoneOn(completions, IdA, 0)
    /\ DoneOn(completions, IdA, 1)
    /\ ~DoneOn(completions, IdB, 0)
    /\ ~DoneOn(completions, IdB, 1)

(* C12: mark_event_done called with an empty or whitespace-only            *)
(* description raises the validation error, it does not return false, and  *)
(* writes nothing: completions, total_xp and the ledger stay as they were. *)
C12_BlankDescriptionRejected ==
    [][(CallStep("mark_event_done") /\ last'.description \in {"", " "})
       => /\ last'.ret = "ValueError"
          /\ completions' = completions
          /\ total_xp' = total_xp
          /\ transactions' = transactions
          /\ sessions' = sessions
          /\ markers' = markers]_vars

(* a whitespace-only description is rejected after an earlier completion   *)
(* of the task was stored and awarded                                      *)
C12_Witness ==
    /\ last.op = "mark_event_done"
    /\ last.description = " "
    /\ last.ret = "ValueError"
    /\ Len(completions) = 1
    /\ total_xp = XP_PER_TASK
    /\ Len(transactions) = 1

(* C13: when the completion write of mark_event_done or mark_event_undone  *)
(* succeeds and the XP write that follows fails, the completion change is  *)
(* kept (the task is done, respectively no longer done, on the day) and    *)
(* the call returns true.                                                  *)
C13_XpFailureKeepsCompletion ==
    [][(/\ ops' = ops + 1
        /\ last'.op \in {"mark_event_done", "mark_event_undone"}
        /\ last'.commits = <<TRUE, FALSE>>)
       => LET e == last'.event_id
              d == last'.completion_date
          IN IF last'.op = "mark_event_done"
             THEN (last'.description = "note" /\ ~DoneOn(completions, e, d))
                  => /\ DoneOn(completions', e, d)
                     /\ last'.ret = "True"
             ELSE DoneOn(completions, e, d)
                  => /\ ~DoneOn(completions', e, d)
                     /\ last'.ret = "True"]_vars

(* a first completion whose award failed: the task is done, the call       *)
(* returned true, and no XP was written                                    *)
C13_Witness ==
    /\ last.op = "mark_event_done"
    /\ last.commits = <<TRUE, FALSE>>
    /\ ~last.was_already_done
    /\ last.ret = "True"
    /\ DoneOn(completions, last.event_id, last.completion_date)
    /\ total_xp = 0
    /\ transactions = << >>

(* C14: a mark_undone of a (task, day) when the store holds no completion  *)
(* row of the task reports success and leaves the task not done on the     *)
(* day.  The code reports failure: see repo_mark_undone.                   *)
C14_UndoWithoutRecordSucceeds ==
    [][(/\ CallStep("mark_event_undone")
        /\ \A i \in DOMAIN completions :
              completions[i].event_id # last'.event_id)
       => /\ last'.ret = "True"
          /\ ~DoneOn(completions', last'.event_id,
                     last'.completion_date)]_vars

(* C15: a pass that walks days_since missed days reports days_processed =  *)
(* days_since, also when some of the days have no calendar events, and its *)
(* pending_count, deducted_count and total_xp_deducted are the sums of the *)
(* pending, deducted and xp counts of its per-day breakdown.  The code     *)
(* adds the auto-stopped tasks of a day to pending_count: see accumulate.  *)
C15_TotalsAreSumsOfDayCounts ==
    [][(PassStep /\ last'.success)
       => LET days == last'.days_breakdown
          IN /\ last'.days_processed = last'.days_since
             /\ last'.pending_count
                  = SumSeq([i \in DOMAIN days |-> days[i].pending])
             /\ last'.deducted_count
                  = SumSeq([i \in DOMAIN days |-> days[i].deducted])
             /\ last'.total_xp_deducted
                  = SumSeq([i \in DOMAIN days |-> days[i].xp])]_vars

(* C16: start_session on a task that has a running session pauses that     *)
(* session with duration = now - its start time, end time = now and status *)
(* Paused, and appends a new running session of the task with start time = *)
(* now and no accumulated duration, so that its current duration is zero.  *)
C16_StartPausesOldSession ==
    [][(/\ CallStep("start_session")
        /\ get_running_session(sessions, last'.event_id) # 0)
       => LET e == last'.event_id
              i == get_running_session(sessions, e)
              n == Len(sessions')
          IN /\ n = Len(sessions) + 1
             /\ \A j \in DOMAIN sessions :
                   j # i => sessions'[j] = sessions[j]
             /\ sessions'[i].status = "Paused"
             /\ sessions'[i].end_time = now
             /\ sessions'[i].duration_seconds = now - sessions[i].start_time
             /\ sessions'[i].start_time = sessions[i].start_time
             /\ sessions'[n].event_id = e
             /\ sessions'[n].status = "running"
             /\ sessions'[n].start_time = now
             /\ sessions'[n].duration_seconds \in {0, None}
             /\ get_current_duration(sessions', e, now) = 0
             /\ last'.ret]_vars

(* a session that ran for one tick was paused by the start of the next one *)
C16_Witness ==
    /\ last.op = "start_session"
    /\ Len(sessions) = 2
    /\ sessions[1].event_id = last.event_id
    /\ sessions[1].status = "Paused"
    /\ sessions[1].duration_seconds = 1
    /\ sessions[1].end_time = now
    /\ sessions[2].event_id = last.event_id
    /\ sessions[2].status = "running"
    /\ sessions[2].start_time = now

(* C17: for every task, get_current_duration is the accumulated duration   *)
(* plus now - start time of the running session when there is one; it is   *)
(* the frozen duration of a paused session of the task when the task has   *)
(* sessions and none is running; it is None only when the task has no      *)
(* session.  The code returns None whenever no session is running: see     *)
(* get_current_duration.                                                   *)
C17_CurrentDuration ==
    \A e \in BaseIds :
        LET i == get_running_session(sessions, e)
            S == {j \in DOMAIN sessions : sessions[j].event_id = e}
            r == get_current_duration(sessions, e, now)
        IN /\ i # 0
              => r = (now - sessions[i].start_time)
                     + (IF sessions[i].duration_seconds = None THEN 0
                        ELSE sessions[i].duration_seconds)
           /\ (i = 0 /\ S # {})
              => \E j \in S : /\ sessions[j].status = "Paused"
                              /\ r = sessions[j].duration_seconds
           /\ r = None => S = {}

(* the duration of a session at time t: live for a running session, the    *)
(* stored duration otherwise                                               *)
DurationAt(s, t) ==
    IF s.status = "running"
    THEN (t - s.start_time)
         + (IF s.duration_seconds = None THEN 0 ELSE s.duration_seconds)
    ELSE IF s.duration_seconds = None THEN 0 ELSE s.duration_seconds

(* C18: for every task and day D, get_time_spent_for_date is the sum of    *)
(* the durations (live for running, stored for paused or done) of exactly  *)
(* the sessions of the task whose start time is on day D; sessions started *)
(* before D or on D+1 or later add nothing.  The code also counts the      *)
(* sessions started on D+1: see get_time_spent_for_date.                   *)
C18_TimeSpentOnDay ==
    \A e \in BaseIds, d \in Days :
        get_time_spent_for_date(sessions, e, d, now)
          = SumSeq([i \in DOMAIN sessions |->
                      IF /\ sessions[i].event_id = e
                         /\ DateOf(sessions[i].start_time) = d
                      THEN DurationAt(sessions[i], now) ELSE 0])

C20_NormalizationIdempotent ==
    last.op = "extract_base_event_id"
    => extract_base_event_id(last.ret) = last.ret

(* the lists of ids given to the batch query: empty, one id, two ids, a    *)
(* repeated id                                                             *)
IdLists == {<< >>, <<IdA>>, <<IdA, IdB>>, <<IdB, IdA, IdB>>}

DeductionsFor(e, d) ==
    {k \in DOMAIN NewTransactions :
        NewTransactions[k].description = Desc("Task not completed", e, d)}

(* the awards a step appends for the task *)
AwardsFor(e) ==
    {k \in DOMAIN NewTransactions :
        /\ NewTransactions[k].event_id = e
        /\ NewTransactions[k].points > 0}

NewWalked == SubSeq(walked', Len(walked) + 1, Len(walked'))

C26_SuccessLeavesMarker ==
    [][(CallStep("reconcile") /\ last'.success)
       => /\ \E i \in DOMAIN markers' :
                markers'[i].last_run_date = DateOf(now')
          /\ has_run_today(markers', DateOf(now'))]_vars

(* C27: every task a walked day D lists that is not done on D and has a    *)
(* running session started on D either is finalized by the pass (done on D *)
(* afterwards) or, when its finalization fails, gets exactly one deduction *)
(* for D.  In the code a pause or a completion write that fails returns    *)
(* False or None instead of raising, and the task is left with neither:    *)
(* see finalize_running_task.                                              *)
C27_FailedFinalizationIsDeducted ==
    [][PassStep
       => \A off \in DOMAIN last'.cal, e \in BaseIds :
             (/\ OccursOn(last'.cal, off, e)
              /\ ~DoneOn(completions, e, Today - off)
              /\ RunningOn(sessions, e, Today - off))
             => \/ DoneOn(completions', e, Today - off)
                \/ Cardinality(DeductionsFor(e, Today - off)) = 1]_vars

(* C28: a pass during which the calendar fetch of a walked day fails       *)
(* returns success = TRUE and appends its marker dated today; the days it  *)
(* processed are exactly the walked days whose fetch succeeded and         *)
(* returned events, and on those days every listed task that was not done  *)
(* is done or deducted afterwards; nothing is written for the failed day.  *)
C28_FetchFailureSkipsOneDay ==
    [][(PassStep /\ \E off \in DOMAIN last'.cal : ~last'.cal[off].ok)
       => LET days == last'.days_breakdown
          IN /\ last'.success
             /\ Len(markers') = Len(markers) + 1
             /\ markers'[Len(markers')].last_run_date = Today
             /\ {days[i].date : i \in DOMAIN days}
                  = {Today - off : off \in
                       {o \in DOMAIN last'.cal :
                          last'.cal[o].ok /\ last'.cal[o].items # << >>}}
             /\ \A off \in DOMAIN last'.cal, e \in BaseIds :
                   /\ (/\ OccursOn(last'.cal, off, e)
                       /\ ~DoneOn(completions, e, Today - off))
                      => \/ DoneOn(completions', e, Today - off)
                         \/ DeductionsFor(e, Today - off) # {}
                   /\ ~last'.cal[off].ok
                      => DeductionsFor(e, Today - off) = {}]_vars

(* a pass over two days: yesterday's fetch fails, the older day lists a    *)
(* task that is deducted                                                   *)
C28_Witness ==
    /\ last.op = "reconcile"
    /\ last.success
    /\ last.message = "Deducted"
    /\ last.days_since = 2
    /\ ~last.cal[1].ok
    /\ last.cal[2].items = <<IdA>>
    /\ Len(last.days_breakdown) = 1
    /\ last.days_breakdown[1].date = last.today - 2
    /\ last.deducted_count = 1
    /\ markers[Len(markers)].last_run_date = last.today

(* C29: every transaction a pass appends is dated on the missed day it is  *)
(* for: a deduction on the day its description names, an award on the      *)
(* walked day on which the task's running session started.  The code       *)
(* gives no timestamp to add_xp and deduct_xp has none to give, so every   *)
(* transaction of the pass is dated now: see finalize_running_task and     *)
(* DeductAll.                                                              *)
C29_TransactionsDatedOnMissedDay ==
    [][PassStep
       => \A k \in DOMAIN NewTransactions :
            LET tx == NewTransactions[k]
            IN IF tx.points < 0
               THEN DateOf(tx.created_at) = tx.description.date
               ELSE \E off \in DOMAIN last'.cal :
                       /\ DateOf(tx.created_at) = Today - off
                       /\ RunningOn(sessions, tx.event_id, Today - off)]_vars

(* what a pass reports as awarded: the key is absent from the dicts of the *)
(* passes that did not walk                                                *)
ReportedAwarded(result) ==
    IF "running_xp_awarded" \in DOMAIN result
    THEN result.running_xp_awarded ELSE 0

(* C30: for every pass, the change of total_xp over the pass is the        *)
(* reported running_xp_awarded minus the reported total_xp_deducted,       *)
(* total_xp_deducted is XP_PER_TASK times deducted_count, and              *)
(* deducted_count is at most pending_count.  add_xp returns False when its *)
(* commit fails and the pass counts the award all the same: see            *)
(* finalize_running_task.                                                  *)
C30_PassAccounting ==
    [][CallStep("reconcile")
       => /\ total_xp' - total_xp
               = ReportedAwarded(last') - last'.total_xp_deducted
          /\ last'.total_xp_deducted = XP_PER_TASK * last'.deducted_count
          /\ last'.deducted_count <= last'.pending_count]_vars

(* the (task, day) pairs that are done *)
DonePairs == {p \in BaseIds \X Days : DoneOn(completions, p[1], p[2])}

(* C31: with marking and unmarking only and every write succeeding,        *)
(* total_xp is XP_PER_TASK times the number of (task, day) pairs that are  *)
(* done.                                                                   *)
C31_XpCountsDonePairs ==
    total_xp = XP_PER_TASK * Cardinality(DonePairs)

(* two pairs were marked done and one of them undone again *)
C31_Witness ==
    /\ last.op = "mark_event_undone"
    /\ last.ret = "True"
    /\ Cardinality(DonePairs) = 1
    /\ Len(completions) = 2
    /\ total_xp = XP_PER_TASK

(* the award transactions of a task *)
AwardsOf(e) ==
    {k \in DOMAIN transactions :
        transactions[k].event_id = e /\ transactions[k].points > 0}

(* C32: when mark_event_done calls interleave step by step, a task has at  *)
(* most one award for each of its done (task, day) pairs: no pair is       *)
(* awarded twice.  Two calls that both make their check before either      *)
(* upsert both award.                                                      *)
C32_InterleavedMarkDoneAwardsOnce ==
    \A e \in BaseIds :
        Cardinality(AwardsOf(e))
            <= Cardinality({d \in Days : DoneOn(completions, e, d)})

(* the running sessions of a task *)
RunningOf(e) ==
    {i \in DOMAIN sessions :
        sessions[i].event_id = e /\ sessions[i].status = "running"}

(* C33: when start_session calls interleave step by step, a task has at    *)
(* most one running session once the calls have returned.  Two calls that  *)
(* both read before either creates leave two running sessions.             *)
C33_InterleavedStartOneRunning ==
    (\A p \in Callers : inflight[p] = Idle)
        => \A e \in BaseIds : Cardinality(RunningOf(e)) <= 1

(* C34: a start_session call either does all of its writes or leaves the   *)
(* session store as it was: a failed write leaves no old session paused    *)
(* without a new running one, and no old session running next to the new   *)
(* one.  The two writes are committed one after the other, each catching   *)
(* its own failure: see start_session.                                     *)
C34_StartSessionAtomic ==
    [][CallStep("start_session")
       => \/ sessions' = sessions
          \/ sessions' = start_session(sessions, last'.event_id, now,
                                       TRUE, TRUE).sess]_vars

(* a duration column read as a number: NULL counts as nothing accumulated *)
Accumulated(row) ==
    IF row.duration_seconds = None THEN 0 ELSE row.duration_seconds

(* C35: pause_session on a task with no running session returns false and  *)
(* changes no session; on a task with a running session it returns true    *)
(* and sets that session's duration to what it had accumulated plus        *)
(* (now - start time), its end time to now and its status to paused, and   *)
(* nothing else; a pause repeated at once returns false and changes        *)
(* nothing.                                                                *)
C35_PauseSession ==
    [][CallStep("pause_session")
       => LET e == last'.event_id
          IN /\ IF RunningOf(e) = {}
                THEN last'.ret = FALSE /\ sessions' = sessions
                ELSE /\ last'.ret = TRUE
                     /\ \E i \in RunningOf(e) :
                           sessions' = [sessions EXCEPT ![i] =
                              [event_id |-> e,
                               start_time |-> sessions[i].start_time,
                               end_time |-> now,
                               duration_seconds |->
                                   Accumulated(sessions[i])
                                   + (now - sessions[i].start_time),
                               status |-> "Paused"]]
             /\ pause_session(sessions', e, now', TRUE)
                  = [sess |-> sessions', ret |-> FALSE]]_vars

(* a session that had run for some time was paused *)
C35_Witness ==
    /\ last.op = "pause_session"
    /\ last.ret = TRUE
    /\ \E i \in DOMAIN sessions :
          /\ sessions[i].event_id = last.event_id
          /\ sessions[i].status = "Paused"
          /\ sessions[i].end_time = now
          /\ sessions[i].duration_seconds > 0

(* C36: a mark_event_undone of a done (task, day) deletes no row and       *)
(* leaves the pair's row with is_done false, no completion instant and no  *)
(* description (the empty description stands for a cleared one).  The code *)
(* clears is_done and completed_at only: see repo_mark_undone.             *)
C36_UndoClearsRow ==
    [][(CallStep("mark_event_undone") /\ last'.was_done)
       => /\ Len(completions') = Len(completions)
          /\ LET i == get_by_event_id(completions, last'.event_id,
                                      last'.completion_date)
             IN /\ completions'[i].event_id = last'.event_id
                /\ ~completions'[i].is_done
                /\ completions'[i].completed_at = None
                /\ completions'[i].completion_description = ""]_vars

(* the base ids the calendar's answer for the day off days back lists *)
ListedOn(cal, off) == {e \in BaseIds : OccursOn(cal, off, e)}

(* C37: a pass judges each base id of a missed day once, however many      *)
(* occurrences of the day normalize to it: for the day it appends at most  *)
(* one transaction for the base id, a deduction naming the day or the      *)
(* award of a session started on the day, and the day's entry counts no    *)
(* more tasks than the day has distinct base ids.                          *)
C37_BaseIdJudgedOnce ==
    [][PassStep
       => \A k \in DOMAIN last'.days_breakdown :
            LET day == last'.days_breakdown[k]
                ids == ListedOn(last'.cal, Today - day.date)
            IN /\ day.pending + day.running_stopped <= Cardinality(ids)
               /\ day.deducted <= Cardinality(ids)
               /\ \A e \in ids :
                     Cardinality(DeductionsFor(e, day.date))
                       + (IF RunningOn(sessions, e, day.date)
                          THEN Cardinality(AwardsFor(e)) ELSE 0) <= 1]_vars

(* a missed day lists two occurrences of a task whose timer was left       *)
(* running and one of another task: one finalization, one deduction        *)
C37_Witness ==
    /\ last.op = "reconcile"
    /\ last.message = "Deducted"
    /\ last.days_since = 1
    /\ last.cal[1].items = <<IdA1, IdA2, IdB>>
    /\ Len(last.days_breakdown) = 1
    /\ last.days_breakdown[1].running_stopped = 1
    /\ last.days_breakdown[1].pending = 1
    /\ Len(transactions) = last.pre.n_tx + 2

(* C38: no step deletes a session or changes its task or start time, and a *)
(* paused session is never touched again: it stays paused with the         *)
(* duration and end time it was given.                                     *)
C38_PausedSessionsFrozen ==
    [][/\ Len(sessions') >= Len(sessions)
       /\ \A i \in DOMAIN sessions :
             /\ sessions'[i].event_id = sessions[i].event_id
             /\ sessions'[i].start_time = sessions[i].start_time
             /\ sessions[i].status = "Paused" => sessions'[i] = sessions[i]
             /\ sessions'[i].status \in {sessions[i].status, "Paused"}]_vars

(* a session paused earlier is still as it was after the task was started  *)
(* again                                                                   *)
C38_Witness ==
    /\ last.op = "start_session"
    /\ Len(sessions) = 2
    /\ sessions[1].event_id = sessions[2].event_id
    /\ sessions[1].status = "Paused"
    /\ sessions[1].end_time < sessions[2].start_time
    /\ sessions[1].duration_seconds
         = sessions[1].end_time - sessions[1].start_time
    /\ sessions[2].status = "running"

(* the step is a mark_event_done or mark_event_undone call whose           *)
(* completion write succeeded and whose XP write was made and failed       *)
PartialMarkStep ==
    /\ ops' = ops + 1
    /\ last'.op \in {"mark_event_done", "mark_event_undone"}
    /\ last'.commits = <<TRUE, FALSE>>
    /\ completions' # completions
    /\ IF last'.op = "mark_event_done"
       THEN ~last'.was_already_done ELSE last'.was_done

(* C39: what mark_event_done or mark_event_undone returns after a          *)
(* completion write that succeeded and an XP write that failed differs     *)
(* from what it returns when both writes succeeded, so that the caller can *)
(* tell the two apart.  Both calls return the one boolean True in either   *)
(* case: see mark_result.                                                  *)
C39_PartialSuccessVisible ==
    [][PartialMarkStep => last'.ret # mark_result(TRUE)]_vars

====
